---- MODULE Spec2Model ----
(***************************************************************************)
(* Model of the dependency-aware batch scheduler of the task workflow      *)
(* scripts (build_execution_batches_fallback) and of the batch consumer    *)
(* that runs the schedule (step2_expand_all_tasks).                        *)
(*                                                                         *)
(* A task document is a record [id, deps]: id is task.id, deps is the set  *)
(* of task_id values found in task.dependencies.requires_completion_of.    *)
(* The code only asks of that list whether it is empty and whether all of  *)
(* its entries pass a test, so the list is kept as a set.  A batch is a    *)
(* sequence of positions of the input list (the task documents the code    *)
(* appends).                                                               *)
(*                                                                         *)
(* Spec runs the scheduler on every input within the bounds.  ExecSpec     *)
(* runs the batch loop of step2_expand_all_tasks on every list of batches  *)
(* within the bounds: a suborchestrator is named by its place <<b, k>>,    *)
(* the k-th task of batch b, and its expansion is named by the same place. *)
(***************************************************************************)
EXTENDS Integers, Sequences, FiniteSets, TLC

\* Largest number of tasks in the input list.
MaxTasks == 4
\* Largest total number of dependency entries in the input.
MaxEdges == 3

\* Largest number of batches handed to step2's loop, and largest batch.
MaxBatches == 2
MaxBatchSize == 3

\* A dependency entry without a usable task_id (dep.get("task_id") is falsy).
NoId == 0

VARIABLES
    tasks,      \* the input list of task documents
    scheduled,  \* the set of identifiers already placed in a batch
    batches,    \* the batches built so far
    warnings,   \* number of "Circular dependency ..." lines printed
    fell_back,  \* whether the batch of remaining tasks was appended
    pc,         \* "loop" while the function runs, "done" once it returned
    plan,           \* step2: the batches to execute
    stream_to_file, \* step2: the streaming flag
    batch_num,      \* step2: number of the batch being executed
    st,             \* step2: state of each suborchestrator
    all_expanded,   \* step2: the expansions collected (not streaming)
    file,           \* step2: what was written to tasks.yaml (streaming)
    file_handle,    \* step2: "none", "open" or "closed"
    xpc,            \* step2: "idle", "for", "await", "returned", "raised"
    finished,       \* step2: the suborchestrators of the batch awaited that
                    \* are done, in the order of completion
    second,     \* whether the scheduler was called a second time
    prev,       \* the batches the first call returned
    apc,        \* feature_development_workflow: "idle", "call", "running",
                \* "returned", "raised"
    agent,      \* the number of the run_agent call the workflow is at
    results,    \* AgentOrchestrator.results: agent name -> saved content
    outfiles,   \* the files save_result wrote: agent name -> content
    contexts,   \* agent name -> the context its prompt was built with
    started,    \* the names of the agents started, in order
    ppc,        \* parse_execution_plan and its caller: "idle", "gen",
                \* "parse", "fallback", "returned"
    execution_plan_yaml,    \* the text of the plan
    batch_size, \* the batch_size of simple batching
    not_found,  \* number of "Task ... not found" lines printed
    excepted,   \* whether the except clause of parse_execution_plan ran
    rpc,        \* step3_review_tasks: "idle", "match", "for", "await",
                \* "returned", "raised"
    overview_tasks,     \* the identifiers of the overview tasks, in order
    detailed_tasks,     \* the identifiers of the detailed tasks
    review_batch_size,  \* the batch_size of step 3
    task_groups,        \* the overview tasks paired, by position
    no_detailed,        \* number of "No detailed task found" lines printed
    review_batches,     \* the batches of task groups
    review_batch_num,   \* the batch the for loop is at
    combined_output,    \* the output of the suborchestrator awaited last
    batch_results,      \* what the last review_suborchestrator returned
    all_review_results, \* the results collected
    review_complete,    \* number of "Batch ... review complete" lines printed
    text_pc,        \* step2 with expansion texts: "idle", "for", "returned"
    text_batches,   \* the batches, each the texts its tasks expand to
    text_stream,    \* stream_to_file
    text_batch_num, \* the batch the for loop is at
    text_file,      \* the text written to tasks.yaml
    text_expanded,  \* all_expanded, as texts
    text_combined,  \* the string step2 returns
    mpc,            \* main with --step all: "idle", "step2", "check",
                    \* "step3", "stopped"
    stream,         \* args.stream
    produced,       \* the text step 2 produced in this run
    tasks_yaml,     \* main: what step2_expand_all_tasks returned
    tasks_file,     \* the content of tasks.yaml
    reported,       \* whether "No tasks generated" was printed
    handed          \* the detailed-task text given to step 3

svars == <<tasks, scheduled, batches, warnings, fell_back, pc>>
xvars == <<plan, stream_to_file, batch_num, st, all_expanded, file,
           file_handle, xpc, finished>>
cvars == <<second, prev>>
avars == <<apc, agent, results, outfiles, contexts, started>>
pvars == <<ppc, execution_plan_yaml, batch_size, not_found, excepted>>
rvars == <<rpc, overview_tasks, detailed_tasks, review_batch_size, task_groups,
           no_detailed, review_batches, review_batch_num, combined_output,
           batch_results, all_review_results, review_complete>>
tvars == <<text_pc, text_batches, text_stream, text_batch_num, text_file,
           text_expanded, text_combined>>
mvars == <<mpc, stream, produced, tasks_yaml, tasks_file, reported, handed>>
ovars == <<cvars, avars, pvars, rvars, tvars, mvars>>
vars == <<svars, xvars, ovars>>

----------------------------------------------------------------------------
(* Inputs *)

\* An input has n tasks with the identifiers 1..n.  A dependency entry may
\* carry one of the n + 2 values 0..n+1: NoId, an identifier of the list, or
\* n + 1, which names no task of the list.  The possible entries are numbered
\* 1..n*(n+2): entry e belongs to task EntryTask(n, e) and carries
\* EntryDep(n, e).
EntryTask(n, e) == ((e - 1) \div (n + 2)) + 1
EntryDep(n, e) == (e - 1) % (n + 2)

\* The number of sets of k numbers of 1..m, and the r-th of them
\* (r in 0..Binom(m, k) - 1).
RECURSIVE Binom(_, _)
Binom(m, k) == IF k = 0 THEN 1 ELSE (Binom(m - 1, k - 1) * m) \div k

RECURSIVE Unrank(_, _, _)
Unrank(m, k, r) ==
    IF k = 0
    THEN {}
    ELSE IF r < Binom(m - 1, k)
         THEN Unrank(m - 1, k, r)
         ELSE {m} \cup Unrank(m - 1, k - 1, r - Binom(m - 1, k))

\* The task list with identifiers 1..n and the dependency entries s.
MkTasks(n, s) ==
    [i \in 1..n |->
        [id |-> i,
         deps |-> {EntryDep(n, e) : e \in {x \in s : EntryTask(n, x) = i}}]]

----------------------------------------------------------------------------
(* build_execution_batches_fallback *)

\* Whether the input list has a task with identifier d.
Present(d) == \E j \in 1..Len(tasks) : tasks[j].id = d

\* A can_run that skips the references to identifiers the list does not have.
CanRunLenient(deps, sched) ==
    \A dep \in {d \in deps : d # NoId} : dep \in sched \/ ~Present(dep)

\* A can_run that tests the list by truthiness: an empty list cannot run.
CanRunTruthy(deps, sched) ==
    /\ deps # {}
    /\ \A dep \in {d \in deps : d # NoId} : dep \in sched

\* A can_run with any in place of all.
CanRunAny(deps, sched) ==
    \/ Cardinality(deps) = 0
    \/ \E dep \in {d \in deps : d # NoId} : dep \in sched

\* can_run of one task document against the identifiers scheduled so far.
CanRun(deps, sched) ==
    IF Cardinality(deps) = 0
    THEN TRUE
    ELSE \A dep \in {d \in deps : d # NoId} : dep \in sched

\* A scan that ends its batch at the first task that can run.
RECURSIVE ScanFirstOnly(_, _, _, _)
ScanFirstOnly(ts, i, sched, batch) ==
    IF i > Len(ts)
    THEN [current_batch |-> batch, scheduled |-> sched]
    ELSE IF ts[i].id \notin sched /\ CanRun(ts[i].deps, sched)
         THEN [current_batch |-> Append(batch, i),
               scheduled |-> sched \cup {ts[i].id}]
         ELSE ScanFirstOnly(ts, i + 1, sched, batch)

\* A scan that puts a task that can run at the front of the batch.
RECURSIVE ScanPrepend(_, _, _, _)
ScanPrepend(ts, i, sched, batch) ==
    IF i > Len(ts)
    THEN [current_batch |-> batch, scheduled |-> sched]
    ELSE IF ts[i].id \notin sched /\ CanRun(ts[i].deps, sched)
         THEN ScanPrepend(ts, i + 1, sched \cup {ts[i].id}, <<i>> \o batch)
         ELSE ScanPrepend(ts, i + 1, sched, batch)

\* The for loop over tasks from position i on: the batch collected and the
\* scheduled set it leaves.  A task that can run is appended and its
\* identifier is added to scheduled before the next task is looked at.
RECURSIVE Scan(_, _, _, _)
Scan(ts, i, sched, batch) ==
    IF i > Len(ts)
    THEN [current_batch |-> batch, scheduled |-> sched]
    ELSE IF ts[i].id \in sched
         THEN Scan(ts, i + 1, sched, batch)
         ELSE IF CanRun(ts[i].deps, sched)
              THEN Scan(ts, i + 1, sched \cup {ts[i].id}, Append(batch, i))
              ELSE Scan(ts, i + 1, sched, batch)

\* A remaining that forgets the tasks left over.
RemainingNone(ts, sched) == <<>>

\* remaining: the positions of the tasks not scheduled, in input order.
Remaining(ts, sched) ==
    SelectSeq([i \in 1..Len(ts) |-> i], LAMBDA i : ts[i].id \notin sched)

\* A while condition with <= in place of <.
LoopCondLeq(ts, sched) == Cardinality(sched) <= Len(ts)

\* The condition of the while loop.
LoopCond(ts, sched) == Cardinality(sched) < Len(ts)

\* A scan that walks the list from either end.
ScheduleBatchEitherEnd ==
    /\ pc = "loop"
    /\ LoopCond(tasks, scheduled)
    /\ \E p \in {[i \in 1..Len(tasks) |-> i],
                 [i \in 1..Len(tasks) |-> Len(tasks) + 1 - i]} :
          LET r == Scan([i \in 1..Len(tasks) |-> tasks[p[i]]], 1, scheduled, <<>>)
          IN  /\ r.current_batch # <<>>
              /\ scheduled' = r.scheduled
              /\ batches' = Append(batches,
                     [k \in 1..Len(r.current_batch) |-> p[r.current_batch[k]]])
    /\ UNCHANGED <<tasks, warnings, fell_back, pc, xvars, ovars>>

\* One pass of the while loop that finds a non-empty batch.
ScheduleBatch ==
    /\ pc = "loop"
    /\ LoopCond(tasks, scheduled)
    /\ LET r == Scan(tasks, 1, scheduled, <<>>)
       IN  /\ r.current_batch # <<>>
           /\ scheduled' = r.scheduled
           /\ batches' = Append(batches, r.current_batch)
    /\ UNCHANGED <<tasks, warnings, fell_back, pc, xvars, ovars>>

\* A fallback pass without the break: the loop goes on.
CycleFallbackNoBreak ==
    /\ pc = "loop"
    /\ LoopCond(tasks, scheduled)
    /\ Scan(tasks, 1, scheduled, <<>>).current_batch = <<>>
    /\ warnings' = warnings + 1
    /\ batches' = Append(batches, Remaining(tasks, scheduled))
    /\ fell_back' = TRUE
    /\ UNCHANGED <<tasks, scheduled, pc, xvars, ovars>>

\* A fallback pass that prints nothing.
CycleFallbackSilent ==
    /\ pc = "loop"
    /\ LoopCond(tasks, scheduled)
    /\ Scan(tasks, 1, scheduled, <<>>).current_batch = <<>>
    /\ batches' = Append(batches, Remaining(tasks, scheduled))
    /\ fell_back' = TRUE
    /\ pc' = "done"
    /\ UNCHANGED <<tasks, scheduled, warnings, xvars, ovars>>

\* One pass of the while loop that finds nothing to run: warn, append the
\* remaining tasks if there are any, break and return.
CycleFallback ==
    /\ pc = "loop"
    /\ LoopCond(tasks, scheduled)
    /\ LET r == Scan(tasks, 1, scheduled, <<>>)
           remaining == Remaining(tasks, r.scheduled)
       IN  /\ r.current_batch = <<>>
           /\ scheduled' = r.scheduled
           /\ warnings' = warnings + 1
           /\ batches' = IF remaining # <<>>
                         THEN Append(batches, remaining)
                         ELSE batches
           /\ fell_back' = (remaining # <<>>)
    /\ pc' = "done"
    /\ UNCHANGED <<tasks, xvars, ovars>>

\* The while condition fails: return batches.
Return ==
    /\ pc = "loop"
    /\ ~LoopCond(tasks, scheduled)
    /\ pc' = "done"
    /\ UNCHANGED <<tasks, scheduled, batches, warnings, fell_back, xvars, ovars>>

\* feature_development_workflow is not running.
AgentIdle ==
    /\ apc = "idle"
    /\ agent = 0
    /\ results = <<>>
    /\ outfiles = <<>>
    /\ contexts = <<>>
    /\ started = <<>>

\* parse_execution_plan is not running.
ParseIdle ==
    /\ ppc = "idle"
    /\ execution_plan_yaml = [doc |-> "mapping", body |-> <<>>]
    /\ batch_size = 0
    /\ not_found = 0
    /\ excepted = FALSE

\* step3_review_tasks is not running.
ReviewIdle ==
    /\ rpc = "idle"
    /\ overview_tasks = <<>>
    /\ detailed_tasks = {}
    /\ review_batch_size = 0
    /\ task_groups = <<>>
    /\ no_detailed = 0
    /\ review_batches = <<>>
    /\ review_batch_num = 0
    /\ combined_output = [payload |-> "none", fenced |-> FALSE, count |-> 0]
    /\ batch_results = <<>>
    /\ all_review_results = <<>>
    /\ review_complete = 0

\* step2 is not running on texts.
TextIdle ==
    /\ text_pc = "idle"
    /\ text_batches = <<>>
    /\ text_stream = FALSE
    /\ text_batch_num = 0
    /\ text_file = <<>>
    /\ text_expanded = <<>>
    /\ text_combined = <<>>

\* main is not running.
MainIdle ==
    /\ mpc = "idle"
    /\ stream = FALSE
    /\ produced = <<>>
    /\ tasks_yaml = <<>>
    /\ tasks_file = <<>>
    /\ reported = FALSE
    /\ handed = <<>>

\* No second call was made.
FirstCall ==
    /\ second = FALSE
    /\ prev = <<>>

\* The variables of the other functions, while they are not running.
OtherIdle ==
    FirstCall /\ AgentIdle /\ ParseIdle /\ ReviewIdle /\ TextIdle /\ MainIdle

\* step2 is not running.
ExecIdle ==
    /\ plan = <<>>
    /\ stream_to_file = FALSE
    /\ batch_num = 0
    /\ st = <<>>
    /\ all_expanded = <<>>
    /\ file = <<>>
    /\ file_handle = "none"
    /\ xpc = "idle"
    /\ finished = <<>>

Init ==
    /\ \E n \in 0..MaxTasks : \E k \in 0..MaxEdges :
          \E r \in 0..(Binom(n * (n + 2), k) - 1) :
              tasks = MkTasks(n, Unrank(n * (n + 2), k, r))
    /\ scheduled = {}
    /\ batches = <<>>
    /\ warnings = 0
    /\ fell_back = FALSE
    /\ pc = "loop"
    /\ ExecIdle
    /\ OtherIdle

Next == ScheduleBatch \/ CycleFallback \/ Return

Spec == Init /\ [][Next]_vars

\* The function is synchronous code that runs to its return: a pass of the
\* loop that can be taken is taken.
FairSpec == Spec /\ WF_vars(Next)

\* A second call whose scheduled set is the one the first call left.
CallAgainKeepsState ==
    /\ pc = "done"
    /\ ~second
    /\ second' = TRUE
    /\ prev' = batches
    /\ batches' = <<>>
    /\ warnings' = 0
    /\ fell_back' = FALSE
    /\ pc' = "loop"
    /\ UNCHANGED <<tasks, scheduled, xvars, avars, pvars, rvars, tvars, mvars>>

\* The caller calls the function again with the same list: the locals
\* scheduled and batches are made anew; warnings and fell_back count for
\* the call that runs.
CallAgain ==
    /\ pc = "done"
    /\ ~second
    /\ second' = TRUE
    /\ prev' = batches
    /\ scheduled' = {}
    /\ batches' = <<>>
    /\ warnings' = 0
    /\ fell_back' = FALSE
    /\ pc' = "loop"
    /\ UNCHANGED <<tasks, xvars, avars, pvars, rvars, tvars, mvars>>

TwiceNext == ScheduleBatch \/ CycleFallback \/ Return \/ CallAgain

TwiceSpec == Init /\ [][TwiceNext]_vars

\* The whole function as one computation: the while loop from the scheduled
\* set sched and the batches bs on.
RECURSIVE WhileLoop(_, _, _)
WhileLoop(ts, sched, bs) ==
    IF ~LoopCond(ts, sched)
    THEN bs
    ELSE LET r == Scan(ts, 1, sched, <<>>)
             remaining == Remaining(ts, r.scheduled)
         IN  IF r.current_batch = <<>>
             THEN IF remaining # <<>> THEN Append(bs, remaining) ELSE bs
             ELSE WhileLoop(ts, r.scheduled, Append(bs, r.current_batch))

build_execution_batches_fallback(ts) == WhileLoop(ts, {}, <<>>)

----------------------------------------------------------------------------
(* Reading a schedule *)

Positions == 1..Len(tasks)

\* The position of the task with identifier d (identifiers are unique).
PosOf(d) == CHOOSE j \in Positions : tasks[j].id = d

\* The places <<b, k>> of the schedule that hold the task at position i.
PlacesOf(i) ==
    {p \in UNION {{<<b, k>> : k \in 1..Len(batches[b])} : b \in 1..Len(batches)} :
        batches[p[1]][p[2]] = i}

\* The number of the batch that holds the task at position i (0 if none).
BatchOf(i) ==
    IF PlacesOf(i) = {} THEN 0 ELSE (CHOOSE p \in PlacesOf(i) : TRUE)[1]

\* The task at position i lies in the batch of leftover tasks.
InFallbackBatch(i) == fell_back /\ BatchOf(i) = Len(batches)

\* The references of the task at position i that carry a task_id.
Refs(i) == {d \in tasks[i].deps : d # NoId}

\* Every dependency of the task at position i that is in the input lies in
\* an earlier batch than the task.
DepsEarlier(i) ==
    \A d \in Refs(i) : Present(d) => BatchOf(PosOf(d)) < BatchOf(i)

\* The schedule bs of the list ts, each batch read as a set of identifiers.
IdSets(ts, bs) ==
    [b \in 1..Len(bs) |-> {ts[bs[b][k]].id : k \in 1..Len(bs[b])}]

\* The list ts reordered by the permutation p of its positions.
Reordered(ts, p) == [i \in 1..Len(ts) |-> ts[p[i]]]

\* Example inputs of the specification, with A, B, C, D = 1, 2, 3, 4.
TwoCycle == <<[id |-> 1, deps |-> {2}], [id |-> 2, deps |-> {1}]>>
DanglingExample == <<[id |-> 1, deps |-> {}], [id |-> 2, deps |-> {3}]>>

----------------------------------------------------------------------------
(* Claims *)

\* C1 (as claimed): in the returned schedule every task outside the final
\* fallback batch lies in a strictly later batch than each of its
\* dependencies that is present in the input.
C1_DependencyOrdering ==
    pc = "done" =>
        \A i \in Positions : ~InFallbackBatch(i) => DepsEarlier(i)

\* C2: the returned batches partition the input: every task of the input
\* lies at exactly one place of the schedule, and the schedule holds nothing
\* else, also when the cycle fallback fired.
C2_Completeness ==
    pc = "done" =>
        /\ \A i \in Positions : Cardinality(PlacesOf(i)) = 1
        /\ \A b \in 1..Len(batches) :
              /\ batches[b] # <<>>
              /\ \A k \in 1..Len(batches[b]) : batches[b][k] \in Positions

C2_Witness ==
    /\ pc = "done"
    /\ fell_back
    /\ Len(batches) >= 2
    /\ Len(tasks) = MaxTasks

C4_Termination ==
    /\ <>(pc = "done")
    /\ [][pc = "loop" =>
            \/ /\ pc' = "loop"
               /\ scheduled \subseteq scheduled'
               /\ scheduled' # scheduled
               /\ Len(batches') = Len(batches) + 1
            \/ /\ pc' = "done"
               /\ warnings' = warnings + 1
            \/ /\ pc' = "done"
               /\ Cardinality(scheduled) = Len(tasks)
               /\ batches' = batches]_vars

C4_Witness ==
    /\ pc = "done"
    /\ Len(batches) >= 3
    /\ fell_back

Unscheduled == {i \in Positions : tasks[i].id \notin scheduled}
AllRefsScheduled(i) == \A d \in Refs(i) : d \in scheduled

\* C6: a pass of the loop that finds no unscheduled task with all its
\* references scheduled, while unscheduled tasks remain, prints one
\* diagnostic, appends all the unscheduled tasks as one batch, in input
\* order, and returns; A:[B], B:[A] gives one warning and the batch {A, B}.
C6_CycleFallback ==
    /\ [][(/\ pc = "loop"
           /\ Unscheduled # {}
           /\ \A i \in Unscheduled : ~AllRefsScheduled(i))
          => (/\ warnings' = warnings + 1
              /\ batches' = Append(batches,
                     SelectSeq([i \in Positions |-> i],
                               LAMBDA i : i \in Unscheduled))
              /\ pc' = "done")]_vars
    /\ []((pc = "done" /\ tasks = TwoCycle) =>
            (warnings = 1 /\ batches = <<<<1, 2>>>>))

C6_Witness ==
    /\ pc = "done"
    /\ tasks = TwoCycle
    /\ warnings = 1
    /\ batches = <<<<1, 2>>>>

\* C7 (as claimed): every reordering of the input list gives the same
\* sequence of batches, each batch read as a set of identifiers.
C7_InputOrderIndependence ==
    pc = "done" =>
        \A p \in Permutations(Positions) :
            IdSets(Reordered(tasks, p),
                   build_execution_batches_fallback(Reordered(tasks, p)))
                = IdSets(tasks, batches)

\* C10 (as claimed): the warning is printed at most once, it is printed
\* exactly when the fallback batch is appended, and without a warning every
\* task lies in a later batch than its dependencies present in the input.
C10_DiagnosticDistinguishes ==
    /\ warnings <= 1
    /\ pc = "done" =>
          /\ (warnings = 1) <=> fell_back
          /\ warnings = 0 => \A i \in Positions : DepsEarlier(i)

----------------------------------------------------------------------------
(* step2_expand_all_tasks: the loop over the batches *)

\* The suborchestrators of the plan, and those of batch b in batch order.
Places == UNION {{<<b, k>> : k \in 1..Len(plan[b])} : b \in 1..Len(plan)}
BatchPlaces(b) == [k \in 1..Len(plan[b]) |-> <<b, k>>]

\* The separator written between two task documents.
Sep == "---"

\* What the streaming branch writes for the results of batch b: a separator
\* before every expansion but the very first one of the file.
RECURSIVE StreamBatch(_, _, _)
StreamBatch(b, k, out) ==
    IF k > Len(plan[b])
    THEN out
    ELSE StreamBatch(b, k + 1,
             (IF b > 1 \/ k - 1 > 0 THEN Append(out, Sep) ELSE out)
                 \o <<(<<b, k>>)>>)

\* A gather that is over as soon as one of its tasks is done.
FirstDone(b) == \E k \in 1..Len(plan[b]) : st[<<b, k>>] = "done"

\* The awaited batch has its results: every suborchestrator is done.
AllDone(b) == \A k \in 1..Len(plan[b]) : st[<<b, k>>] = "done"

\* The awaited batch raised: a suborchestrator failed.
SomeFailed(b) == \E k \in 1..Len(plan[b]) : st[<<b, k>>] = "failed"

\* The finally clause: close the file if it was opened.
Closed(h) == IF h = "open" THEN "closed" ELSE h

\* A batch of one task: the suborchestrator is awaited directly.
RunSingle ==
    /\ xpc = "for"
    /\ batch_num < Len(plan)
    /\ Len(plan[batch_num + 1]) = 1
    /\ batch_num' = batch_num + 1
    /\ st' = [st EXCEPT ![<<batch_num + 1, 1>>] = "running"]
    /\ finished' = <<>>
    /\ xpc' = "await"
    /\ UNCHANGED <<plan, stream_to_file, all_expanded, file, file_handle, svars, ovars>>

\* A batch of several tasks: asyncio.gather makes a task of every coroutine
\* of the batch and awaits them all.
Gather ==
    /\ xpc = "for"
    /\ batch_num < Len(plan)
    /\ Len(plan[batch_num + 1]) # 1
    /\ batch_num' = batch_num + 1
    /\ st' = [t \in Places |-> IF t[1] = batch_num + 1 THEN "created" ELSE st[t]]
    /\ finished' = <<>>
    /\ xpc' = "await"
    /\ UNCHANGED <<plan, stream_to_file, all_expanded, file, file_handle, svars, ovars>>

\* A suborchestrator that waits for the tasks before it in its batch.
StartInOrder(t) ==
    /\ st[t] = "created"
    /\ \A k \in 1..(t[2] - 1) : st[<<t[1], k>>] = "done"
    /\ st' = [st EXCEPT ![t] = "running"]
    /\ UNCHANGED <<plan, stream_to_file, batch_num, all_expanded, file,
                   file_handle, xpc, finished, svars, ovars>>

\* The event loop starts a task that gather created.
Start(t) ==
    /\ st[t] = "created"
    /\ st' = [st EXCEPT ![t] = "running"]
    /\ UNCHANGED <<plan, stream_to_file, batch_num, all_expanded, file,
                   file_handle, xpc, finished, svars, ovars>>

\* A running suborchestrator returns its expansion.
Finish(t) ==
    /\ st[t] = "running"
    /\ st' = [st EXCEPT ![t] = "done"]
    /\ finished' = Append(finished, t)
    /\ UNCHANGED <<plan, stream_to_file, batch_num, all_expanded, file,
                   file_handle, xpc, svars, ovars>>

\* A running suborchestrator raises.
Fail(t) ==
    /\ st[t] = "running"
    /\ st' = [st EXCEPT ![t] = "failed"]
    /\ UNCHANGED <<plan, stream_to_file, batch_num, all_expanded, file,
                   file_handle, xpc, finished, svars, ovars>>

\* A collection of the results in the order of completion.
CollectAsCompleted ==
    /\ xpc = "await"
    /\ AllDone(batch_num)
    /\ IF stream_to_file
       THEN /\ file' = file \o finished
            /\ UNCHANGED all_expanded
       ELSE /\ all_expanded' = all_expanded \o finished
            /\ UNCHANGED file
    /\ xpc' = "for"
    /\ UNCHANGED <<plan, stream_to_file, batch_num, st, file_handle, finished, svars, ovars>>

\* The await returns the results of the batch: they are written or
\* collected in batch order, and the loop goes to the next batch.
Collect ==
    /\ xpc = "await"
    /\ AllDone(batch_num)
    /\ IF stream_to_file
       THEN /\ file' = StreamBatch(batch_num, 1, file)
            /\ UNCHANGED all_expanded
       ELSE /\ all_expanded' = all_expanded \o BatchPlaces(batch_num)
            /\ UNCHANGED file
    /\ xpc' = "for"
    /\ UNCHANGED <<plan, stream_to_file, batch_num, st, file_handle, finished, svars, ovars>>

\* A raise that leaves the function without the finally clause.
RaiseNoFinally ==
    /\ xpc = "await"
    /\ SomeFailed(batch_num)
    /\ xpc' = "raised"
    /\ UNCHANGED <<plan, stream_to_file, batch_num, st, all_expanded, file,
                   file_handle, finished, svars, ovars>>

\* The await raises the exception of a failed suborchestrator: the function
\* is left through its finally clause.
Raise ==
    /\ xpc = "await"
    /\ SomeFailed(batch_num)
    /\ xpc' = "raised"
    /\ file_handle' = Closed(file_handle)
    /\ UNCHANGED <<plan, stream_to_file, batch_num, st, all_expanded, file, finished, svars, ovars>>

\* The loop is over: return through the finally clause.
ReturnExec ==
    /\ xpc = "for"
    /\ batch_num = Len(plan)
    /\ xpc' = "returned"
    /\ file_handle' = Closed(file_handle)
    /\ UNCHANGED <<plan, stream_to_file, batch_num, st, all_expanded, file, finished, svars, ovars>>

\* The lists of at most MaxBatches batches of 1..MaxBatchSize tasks, each
\* batch given by its places.
Plans ==
    UNION {{[b \in 1..n |-> [k \in 1..size[b] |-> <<b, k>>]]
               : size \in [1..n -> 1..MaxBatchSize]}
           : n \in 0..MaxBatches}

ExecInit ==
    /\ tasks = <<>>
    /\ scheduled = {}
    /\ batches = <<>>
    /\ warnings = 0
    /\ fell_back = FALSE
    /\ pc = "done"
    /\ plan \in Plans
    /\ stream_to_file \in BOOLEAN
    /\ batch_num = 0
    /\ st = [t \in Places |-> "idle"]
    /\ all_expanded = <<>>
    /\ file = <<>>
    /\ file_handle = IF stream_to_file THEN "open" ELSE "none"
    /\ xpc = "for"
    /\ finished = <<>>
    /\ OtherIdle

ExecNext ==
    \/ RunSingle
    \/ Gather
    \/ \E t \in Places : Start(t)
    \/ \E t \in Places : Finish(t)
    \/ \E t \in Places : Fail(t)
    \/ Collect
    \/ Raise
    \/ ReturnExec

ExecSpec == ExecInit /\ [][ExecNext]_vars

\* The places of the batches before batch b.
Before(b) == {u \in Places : u[1] < b}

\* Batch b is complete: the loop went past it.
BatchComplete(b) ==
    \/ b < batch_num
    \/ b = batch_num /\ xpc \in {"for", "returned"}

\* C8: a suborchestrator of a batch is started only when every
\* suborchestrator of every earlier batch is done, so two batches never run
\* at the same time.
C8_BatchesSequential ==
    \A t \in Places :
        st[t] # "idle" => \A u \in Before(t[1]) : st[u] = "done"

C8_Witness ==
    /\ Len(plan) >= 2
    /\ Len(plan[1]) >= 2
    /\ \E t \in Places : t[1] = 2 /\ st[t] = "running"

\* C9: while a batch of two or more tasks is awaited, every task of it that
\* has not started can start whatever the state of the other tasks of the
\* batch, and the batch is complete only when all its tasks are done.
C9_BatchConcurrent ==
    /\ \A t \in Places :
          (xpc = "await" /\ t[1] = batch_num /\ st[t] = "created")
              => ENABLED Start(t)
    /\ \A b \in 1..Len(plan) : BatchComplete(b) => AllDone(b)

C9_Witness ==
    /\ xpc = "await"
    /\ Len(plan[batch_num]) >= 2
    /\ \A k \in 1..Len(plan[batch_num]) : st[<<batch_num, k>>] = "running"

----------------------------------------------------------------------------
\* The places of the plan, batch after batch.
RECURSIVE PlanPlaces(_)
PlanPlaces(b) ==
    IF b > Len(plan) THEN <<>> ELSE BatchPlaces(b) \o PlanPlaces(b + 1)

\* C24: what step 2 returns or has written holds one expansion for each
\* task of each batch, in batch order and, within a batch, in the order of
\* the batch, whatever the order in which the suborchestrators finished.
C24_ResultInBatchOrder ==
    xpc = "returned" =>
        IF stream_to_file
        THEN /\ all_expanded = <<>>
             /\ Len(file) = IF Places = {} THEN 0 ELSE 2 * Len(PlanPlaces(1)) - 1
             /\ \A j \in 1..Len(PlanPlaces(1)) : file[2 * j - 1] = PlanPlaces(1)[j]
        ELSE /\ file = <<>>
             /\ all_expanded = PlanPlaces(1)

\* The suborchestrators of the last batch finished in the reverse of the
\* batch order.
C24_Witness ==
    /\ xpc = "returned"
    /\ Len(plan) >= 2
    /\ Len(finished) >= 2
    /\ \A j \in 1..Len(finished) :
          finished[j] = <<Len(plan), Len(finished) + 1 - j>>

\* C25: a failed suborchestrator belongs to the batch awaited and the loop
\* never goes past it, so no suborchestrator of a later batch leaves the
\* idle state and the function does not return; and when the function is
\* left, by return or by the exception, a file opened for streaming is
\* closed.
C25_FailureStopsAndCloses ==
    /\ \A t \in Places :
          st[t] = "failed" =>
              /\ t[1] = batch_num
              /\ xpc \in {"await", "raised"}
              /\ \A u \in Places : u[1] > t[1] => st[u] = "idle"
    /\ xpc \in {"returned", "raised"} =>
          file_handle = (IF stream_to_file THEN "closed" ELSE "none")

C25_Witness ==
    /\ xpc = "raised"
    /\ stream_to_file
    /\ file_handle = "closed"
    /\ batch_num = 1
    /\ Len(plan) >= 2
    /\ file = <<>>

----------------------------------------------------------------------------
(* Further properties of the schedule *)

\* C11: a task with an empty dependency list lies in the first batch of the
\* returned schedule, whatever the other tasks are.
C11_NoDependencyFirst ==
    pc = "done" =>
        \A i \in Positions : tasks[i].deps = {} => BatchOf(i) = 1

C11_Witness ==
    /\ pc = "done"
    /\ Len(batches) >= 2
    /\ fell_back
    /\ \E i \in Positions : tasks[i].deps = {} /\ i > 1 /\ BatchOf(i) = 1

\* C16: the empty list gives no batch and no diagnostic; a single task
\* without dependencies gives exactly one batch that holds it.
C16_EmptyAndSingle ==
    pc = "done" =>
        /\ tasks = <<>> => (batches = <<>> /\ warnings = 0 /\ ~fell_back)
        /\ tasks = <<[id |-> 1, deps |-> {}]>> =>
              (batches = <<<<1>>>> /\ warnings = 0)

C16_Witness ==
    /\ pc = "done"
    /\ tasks = <<>>
    /\ batches = <<>>

\* C19: in every returned batch, the fallback batch included, the tasks
\* stand in the order they have in the input list.
C19_InputOrderInBatch ==
    \A b \in 1..Len(batches) :
        \A k \in 1..(Len(batches[b]) - 1) : batches[b][k] < batches[b][k + 1]

C19_Witness ==
    /\ pc = "done"
    /\ fell_back
    /\ Len(batches) = 2
    /\ Len(batches[1]) >= 2
    /\ Len(batches[2]) >= 2

\* The positions the task at position i depends on, directly (present
\* references only) and through any number of steps.
DirectDeps(i) == {PosOf(d) : d \in {x \in Refs(i) : Present(x)}}

RECURSIVE ReachIn(_, _)
ReachIn(S, n) ==
    IF n = 0 THEN S ELSE ReachIn(S \cup UNION {DirectDeps(j) : j \in S}, n - 1)

Reach(i) == ReachIn(DirectDeps(i), Len(tasks))

\* The task at position i lies on a dependency cycle (a self-reference is a
\* cycle), or depends through any number of steps on a task that does.
OnCycle(i) == i \in Reach(i)
Stuck(i) == OnCycle(i) \/ \E j \in Reach(i) : OnCycle(j)

C15_Pure ==
    /\ [][tasks' = tasks]_vars
    /\ [][(pc = "done" /\ pc' = "loop") =>
            (scheduled' = {} /\ batches' = <<>>)]_vars
    /\ []((pc = "done" /\ second) =>
            (batches = prev /\ (warnings = 1) = fell_back))

C15_Witness ==
    /\ pc = "done"
    /\ second
    /\ fell_back
    /\ Len(prev) >= 2

----------------------------------------------------------------------------
\* The feature-development pipeline of multi_agent_orchestration.py.

\* The largest content an agent returns; content 0 is the empty string.
MaxOutput == 2

Outputs == 0..MaxOutput

\* The run_agent calls of feature_development_workflow, in program order.
Agents == <<"planner", "implementer", "tester", "reviewer">>

\* The context_agents argument of each call.
ContextAgents ==
    [planner |-> <<>>,
     implementer |-> <<"planner">>,
     tester |-> <<"planner", "implementer">>,
     reviewer |-> <<"planner", "implementer", "tester">>]

\* A context with the parts in the reverse of the order named.
load_context_reversed(names, res) ==
    LET present == SelectSeq(names, LAMBDA n : n \in DOMAIN res)
        m == Len(present)
    IN  [k \in 1..m |-> <<present[m + 1 - k], res[present[m + 1 - k]]>>]

\* load_context: one part "## Name Output: content" for each name that has
\* a saved result, in the order of the names; a name without one is
\* skipped.
load_context(names, res) ==
    LET present == SelectSeq(names, LAMBDA n : n \in DOMAIN res)
    IN  [k \in 1..Len(present) |-> <<present[k], res[present[k]]>>]

\* run_agent up to the query: the prompt is built from the saved results
\* (an empty context leaves the prompt bare) and sent to the agent.
StartAgent ==
    /\ apc = "call"
    /\ LET name == Agents[agent]
       IN  /\ contexts' = (name :> (IF ContextAgents[name] # <<>>
                                    THEN load_context(ContextAgents[name], results)
                                    ELSE <<>>)) @@ contexts
           /\ started' = Append(started, name)
    /\ apc' = "running"
    /\ UNCHANGED <<agent, results, outfiles, svars, xvars, cvars, pvars, rvars, tvars, mvars>>

\* run_agent from the end of the messages: the joined text is saved to the
\* file and to results, and the workflow goes on to its next call.
SaveResult(content) ==
    /\ apc = "running"
    /\ LET name == Agents[agent]
       IN  /\ outfiles' = (name :> content) @@ outfiles
           /\ results' = (name :> content) @@ results
    /\ IF agent < Len(Agents)
       THEN agent' = agent + 1 /\ apc' = "call"
       ELSE agent' = agent /\ apc' = "returned"
    /\ UNCHANGED <<contexts, started, svars, xvars, cvars, pvars, rvars, tvars, mvars>>

\* The client raises while the agent runs: nothing is saved and the
\* exception leaves the workflow.
AgentRaise ==
    /\ apc = "running"
    /\ apc' = "raised"
    /\ UNCHANGED <<agent, results, outfiles, contexts, started, svars, xvars, cvars, pvars, rvars, tvars, mvars>>

AgentInit ==
    /\ tasks = <<>>
    /\ scheduled = {}
    /\ batches = <<>>
    /\ warnings = 0
    /\ fell_back = FALSE
    /\ pc = "done"
    /\ ExecIdle
    /\ FirstCall
    /\ ParseIdle
    /\ ReviewIdle
    /\ TextIdle
    /\ MainIdle
    /\ apc = "call"
    /\ agent = 1
    /\ results = <<>>
    /\ outfiles = <<>>
    /\ contexts = <<>>
    /\ started = <<>>

AgentNext ==
    \/ StartAgent
    \/ \E content \in Outputs : SaveResult(content)
    \/ AgentRaise

AgentSpec == AgentInit /\ [][AgentNext]_vars

\* C18: the agents start in the order planner, implementer, tester,
\* reviewer; when an agent has started, the result of every agent before it
\* is saved; and the context of each started agent is the saved content of
\* the agents named for it, one part each, in the order named.
C18_LinearPipeline ==
    /\ started = SubSeq(Agents, 1, Len(started))
    /\ \A k \in 1..Len(started) :
          LET name == Agents[k]
              named == ContextAgents[name]
          IN  /\ \A j \in 1..(k - 1) :
                    /\ Agents[j] \in DOMAIN results
                    /\ Agents[j] \in DOMAIN outfiles
              /\ name \in DOMAIN contexts
              /\ Len(contexts[name]) = Len(named)
              /\ \A j \in 1..Len(named) :
                    contexts[name][j] = <<named[j], results[named[j]]>>

C18_Witness ==
    /\ apc = "running"
    /\ started = Agents
    /\ results["planner"] # results["implementer"]
    /\ results["tester"] = 0

----------------------------------------------------------------------------
(* generate_execution_plan_simple and parse_execution_plan *)

\* The bounds of the plans read from outside: the tasks of the list, and
\* the entries of the text.
MaxPlanTasks == 2
MaxPlanLen == 4

\* The entries of a plan text. A number >= 0 is an entry of "tasks" with
\* that task_id (NoId: a task_id that is missing or falsy); the others:
\* an entry of "tasks" whose task_id cannot be read or looked up;
BadRef == -1
\* "- tasks:", the start of an entry of "batches";
NewBatch == -2
\* an entry of "batches" that is not a mapping.
BadBatch == -3

IsMark(x) == x = NewBatch \/ x = BadBatch

\* The list ts with identifiers off, off + 1, ...: with off = 0 the first
\* task has a falsy identifier.
ShiftIds(ts, off) ==
    [i \in 1..Len(ts) |-> [id |-> ts[i].id - 1 + off, deps |-> ts[i].deps]]

\* The last entry of the batch definition that starts at entry i.
SegEnd(body, i) ==
    LET later == {j \in (i + 1)..Len(body) : IsMark(body[j])}
    IN  IF later = {}
        THEN Len(body)
        ELSE (CHOOSE j \in later : \A l \in later : j <= l) - 1

\* yaml.safe_load: raises on a text that is not YAML; otherwise the value
\* read, a mapping or not, and of a mapping the list under
\* execution_plan.batches.
yaml_safe_load(y) ==
    LET body == y.body
        marks == SelectSeq([i \in 1..Len(body) |-> i], LAMBDA i : IsMark(body[i]))
    IN  [raises |-> y.doc = "invalid",
         is_mapping |-> y.doc = "mapping",
         batches |->
            [k \in 1..Len(marks) |->
                [ok |-> body[marks[k]] = NewBatch,
                 tasks |-> SubSeq(body, marks[k] + 1, SegEnd(body, marks[k]))]]]

\* yaml.dump of a plan with the batch definitions pb.
RECURSIVE DumpBatches(_, _)
DumpBatches(pb, k) ==
    IF k > Len(pb)
    THEN <<>>
    ELSE <<NewBatch>> \o pb[k].tasks \o DumpBatches(pb, k + 1)

yaml_dump(pb) == [doc |-> "mapping", body |-> DumpBatches(pb, 1)]

\* The loop of generate_execution_plan_simple from index i (from 0):
\* one batch definition for tasks[i : i + batch_size].
RECURSIVE SimpleBatches(_, _, _, _)
SimpleBatches(ts, i, size, bs) ==
    IF i >= Len(ts)
    THEN bs
    ELSE LET stop == IF i + size < Len(ts) THEN i + size ELSE Len(ts)
         IN  SimpleBatches(ts, i + size, size,
                 Append(bs, [ok |-> TRUE,
                             tasks |-> [j \in 1..(stop - i) |-> ts[i + j].id]]))

generate_execution_plan_simple(ts, size) ==
    yaml_dump(SimpleBatches(ts, 0, size, <<>>))

\* task_by_id: the position of the task of each truthy identifier (the
\* last one, if an identifier repeats).
task_by_id(ts) ==
    [d \in {ts[i].id : i \in 1..Len(ts)} \ {NoId} |->
        CHOOSE i \in 1..Len(ts) :
            ts[i].id = d /\ \A j \in 1..Len(ts) : ts[j].id = d => j <= i]

\* The loop over the task references of one batch definition.
RECURSIVE WalkRefs(_, _, _, _, _)
WalkRefs(task_refs, j, by_id, batch_tasks, nf) ==
    IF j > Len(task_refs)
    THEN [raised |-> FALSE, batch_tasks |-> batch_tasks, not_found |-> nf]
    ELSE IF task_refs[j] = BadRef
    THEN [raised |-> TRUE, batch_tasks |-> batch_tasks, not_found |-> nf]
    ELSE IF task_refs[j] \in DOMAIN by_id
    THEN WalkRefs(task_refs, j + 1, by_id,
                  Append(batch_tasks, by_id[task_refs[j]]), nf)
    ELSE WalkRefs(task_refs, j + 1, by_id, batch_tasks, nf + 1)

\* The loop over the batch definitions.
RECURSIVE WalkBatches(_, _, _, _, _)
WalkBatches(plan_batches, k, by_id, bs, nf) ==
    IF k > Len(plan_batches)
    THEN [raised |-> FALSE, batches |-> bs, not_found |-> nf]
    ELSE IF ~plan_batches[k].ok
    THEN [raised |-> TRUE, batches |-> bs, not_found |-> nf]
    ELSE LET r == WalkRefs(plan_batches[k].tasks, 1, by_id, <<>>, nf)
         IN  IF r.raised
             THEN [raised |-> TRUE, batches |-> bs, not_found |-> r.not_found]
             ELSE WalkBatches(plan_batches, k + 1, by_id,
                      IF r.batch_tasks # <<>>
                      THEN Append(bs, r.batch_tasks)
                      ELSE bs,
                      r.not_found)

\* The body of the try of parse_execution_plan.
TryBody(y, ts) ==
    LET loaded == yaml_safe_load(y)
    IN  IF loaded.raises \/ ~loaded.is_mapping
        THEN [raised |-> TRUE, batches |-> <<>>, not_found |-> 0]
        ELSE WalkBatches(loaded.batches, 1, task_by_id(ts), <<>>, 0)

\* step2 with simple batching: the plan is generated from the list.
GenerateSimple ==
    /\ ppc = "gen"
    /\ execution_plan_yaml' = generate_execution_plan_simple(tasks, batch_size)
    /\ ppc' = "parse"
    /\ UNCHANGED <<batch_size, not_found, excepted, svars, xvars, cvars, avars, rvars, tvars, mvars>>

\* A parse that checks the batches against the dependencies and falls
\* back when a task does not come after one of its dependencies.
ParseReturnChecked ==
    /\ ppc = "parse"
    /\ LET r == TryBody(execution_plan_yaml, tasks)
           ordered ==
               \A a \in 1..Len(r.batches) : \A b \in 1..Len(r.batches) :
                   \A k \in 1..Len(r.batches[a]) : \A l \in 1..Len(r.batches[b]) :
                       tasks[r.batches[b][l]].id \in tasks[r.batches[a][k]].deps
                           => b < a
       IN  /\ ~r.raised
           /\ not_found' = r.not_found
           /\ IF ordered
              THEN /\ batches' = r.batches
                   /\ ppc' = "returned"
                   /\ UNCHANGED <<scheduled, pc, excepted>>
              ELSE /\ batches' = <<>>
                   /\ scheduled' = {}
                   /\ pc' = "loop"
                   /\ ppc' = "fallback"
                   /\ excepted' = TRUE
    /\ UNCHANGED <<tasks, warnings, fell_back, execution_plan_yaml, batch_size,
                   xvars, cvars, avars, rvars, tvars, mvars>>

\* parse_execution_plan when the try runs to its end: the batches walked
\* are returned.
ParseReturn ==
    /\ ppc = "parse"
    /\ LET r == TryBody(execution_plan_yaml, tasks)
       IN  /\ ~r.raised
           /\ batches' = r.batches
           /\ not_found' = r.not_found
    /\ ppc' = "returned"
    /\ UNCHANGED <<tasks, scheduled, warnings, fell_back, pc, execution_plan_yaml,
                   batch_size, excepted, xvars, cvars, avars, rvars, tvars, mvars>>

\* An except clause that hands the batches walked so far to the scheduler.
ParseExceptKeepsPartial ==
    /\ ppc = "parse"
    /\ LET r == TryBody(execution_plan_yaml, tasks)
       IN  /\ r.raised
           /\ not_found' = r.not_found
           /\ batches' = r.batches
    /\ excepted' = TRUE
    /\ scheduled' = {}
    /\ pc' = "loop"
    /\ ppc' = "fallback"
    /\ UNCHANGED <<tasks, warnings, fell_back, execution_plan_yaml, batch_size,
                   xvars, cvars, avars, rvars, tvars, mvars>>

\* parse_execution_plan when the try raises: the except clause calls
\* build_execution_batches_fallback(tasks), which starts from its own
\* empty batches and scheduled.
ParseExcept ==
    /\ ppc = "parse"
    /\ LET r == TryBody(execution_plan_yaml, tasks)
       IN  /\ r.raised
           /\ not_found' = r.not_found
    /\ excepted' = TRUE
    /\ batches' = <<>>
    /\ scheduled' = {}
    /\ pc' = "loop"
    /\ ppc' = "fallback"
    /\ UNCHANGED <<tasks, warnings, fell_back, execution_plan_yaml, batch_size,
                   xvars, cvars, avars, rvars, tvars, mvars>>

\* The except clause returns what the scheduler returned.
FallbackReturn ==
    /\ ppc = "fallback"
    /\ pc = "done"
    /\ ppc' = "returned"
    /\ UNCHANGED <<execution_plan_yaml, batch_size, not_found, excepted,
                   svars, xvars, cvars, avars, rvars, tvars, mvars>>

\* The plan texts for a list of n tasks with identifiers from off: empty,
\* or batch definitions with references to the identifiers of the list and
\* to one more.
PlanBodies(n, off) ==
    LET entry == (off..(n + off)) \cup {BadRef, NewBatch, BadBatch}
    IN  {b \in UNION {[1..l -> entry] : l \in 0..MaxPlanLen} :
            b # <<>> => IsMark(b[1])}

PlanDocs(n, off) ==
    {[doc |-> "invalid", body |-> <<>>], [doc |-> "scalar", body |-> <<>>]}
        \cup {[doc |-> "mapping", body |-> b] : b \in PlanBodies(n, off)}

\* parse_execution_plan is called with a plan from outside.
PlanInit ==
    /\ \E n \in 0..MaxPlanTasks : \E k \in 0..1 :
          \E r \in 0..(Binom(n * (n + 2), k) - 1) : \E off \in 0..1 :
              /\ tasks = ShiftIds(MkTasks(n, Unrank(n * (n + 2), k, r)), off)
              /\ execution_plan_yaml \in PlanDocs(n, off)
    /\ scheduled = {}
    /\ batches = <<>>
    /\ warnings = 0
    /\ fell_back = FALSE
    /\ pc = "done"
    /\ ExecIdle
    /\ FirstCall
    /\ AgentIdle
    /\ ReviewIdle
    /\ TextIdle
    /\ MainIdle
    /\ ppc = "parse"
    /\ batch_size = 0
    /\ not_found = 0
    /\ excepted = FALSE

PlanNext ==
    \/ ParseReturn
    \/ ParseExcept
    \/ ScheduleBatch
    \/ CycleFallback
    \/ Return
    \/ FallbackReturn

PlanSpec == PlanInit /\ [][PlanNext]_vars

\* step2 is called with simple batching.
SimpleInit ==
    /\ \E n \in 0..MaxTasks : \E k \in 0..MaxEdges :
          \E r \in 0..(Binom(n * (n + 2), k) - 1) : \E off \in 0..1 :
              tasks = ShiftIds(MkTasks(n, Unrank(n * (n + 2), k, r)), off)
    /\ scheduled = {}
    /\ batches = <<>>
    /\ warnings = 0
    /\ fell_back = FALSE
    /\ pc = "done"
    /\ ExecIdle
    /\ FirstCall
    /\ AgentIdle
    /\ ReviewIdle
    /\ TextIdle
    /\ MainIdle
    /\ ppc = "gen"
    /\ execution_plan_yaml = [doc |-> "mapping", body |-> <<>>]
    /\ batch_size \in 1..MaxBatchSize
    /\ not_found = 0
    /\ excepted = FALSE

SimpleNext == GenerateSimple \/ ParseReturn

SimpleSpec == SimpleInit /\ [][SimpleNext]_vars

\* The plan text is a mapping whose batch definitions and task references
\* can all be read.
WellFormed(y) ==
    /\ y.doc = "mapping"
    /\ \A i \in 1..Len(y.body) : y.body[i] # BadRef /\ y.body[i] # BadBatch

\* The identifier d is in the lookup table of the parse.
Known(d) == d # NoId /\ Present(d)

\* The batches of a well-formed plan as given: of each batch definition the
\* identifiers that name a task of the list, in the order of the plan; a
\* definition that names none gives no batch.
AsGiven(y) ==
    LET pb == yaml_safe_load(y).batches
        named == [k \in 1..Len(pb) |-> SelectSeq(pb[k].tasks, Known)]
    IN  SelectSeq(named, LAMBDA b : b # <<>>)

\* The batches bs, each as the sequence of its identifiers.
IdSeqs(bs) ==
    [b \in 1..Len(bs) |-> [k \in 1..Len(bs[b]) |-> tasks[bs[b][k]].id]]

\* C12: a well-formed plan never reaches the except clause nor the greedy
\* scheduler, whatever its batches do to the dependencies, and the batches
\* returned are those of the plan, in its order.
C12_PlanNotValidated ==
    WellFormed(execution_plan_yaml) =>
        /\ ppc # "fallback"
        /\ ~excepted
        /\ scheduled = {}
        /\ ppc = "returned" => IdSeqs(batches) = AsGiven(execution_plan_yaml)

\* A plan was returned that puts a task in an earlier batch than one of
\* its dependencies, and another task in the batch of its dependency.
C12_Witness ==
    /\ ppc = "returned"
    /\ ~excepted
    /\ \E a \in 1..Len(batches) : \E b \in 1..Len(batches) :
          /\ a < b
          /\ tasks[batches[b][1]].id \in tasks[batches[a][1]].deps

\* C13: a plan that cannot be parsed or walked ends in the except clause,
\* and what parse_execution_plan then returns is the schedule of
\* build_execution_batches_fallback for the list.
C13_ParseFailureFallsBack ==
    /\ (ppc # "parse" /\ ~WellFormed(execution_plan_yaml)) => excepted
    /\ (ppc = "returned" /\ excepted) =>
          batches = build_execution_batches_fallback(tasks)

\* The walk had collected a task when it raised, and the fallback returned
\* two batches.
C13_Witness ==
    /\ ppc = "returned"
    /\ excepted
    /\ Len(batches) = 2
    /\ TryBody(execution_plan_yaml, tasks).batches # <<>>

\* C17: simple batching returns ceil(n / batch_size) batches, the
\* consecutive chunks of the list: every batch but the last has batch_size
\* tasks, and the batches one after the other are the list in its order.
C17_SimpleBatching ==
    ppc = "returned" =>
        LET n == Len(tasks)
            count == (n + batch_size - 1) \div batch_size
        IN  /\ Len(batches) = count
            /\ \A b \in 1..count :
                  batches[b] =
                      [k \in 1..(IF b < count THEN batch_size
                                 ELSE n - (count - 1) * batch_size) |->
                          (b - 1) * batch_size + k]

\* The batches of a plan restricted to the identifiers of the list: of
\* each batch definition the references that name a task of the list, in
\* reference order; a definition with none gives no batch.
KnownBatches(y) ==
    LET pb == yaml_safe_load(y).batches
        named == [k \in 1..Len(pb) |-> SelectSeq(pb[k].tasks, Present)]
    IN  SelectSeq(named, LAMBDA b : b # <<>>)

\* The references of the plan text to identifiers the list does not have.
UnknownRefs(y) ==
    {i \in 1..Len(y.body) : y.body[i] >= 0 /\ ~Present(y.body[i])}

\* C23: the batches a parse returns without falling back are, in plan
\* order, the known references of each plan batch in reference order, with
\* the batches without a known reference left out; one warning is printed
\* for each reference to an identifier the list does not have; and only
\* referenced tasks are in a batch.
C23_ParseResult ==
    (ppc = "returned" /\ ~excepted) =>
        /\ IdSeqs(batches) = KnownBatches(execution_plan_yaml)
        /\ not_found = Cardinality(UnknownRefs(execution_plan_yaml))
        /\ \A i \in Positions :
              BatchOf(i) # 0 =>
                  \E j \in 1..Len(execution_plan_yaml.body) :
                      execution_plan_yaml.body[j] = tasks[i].id

----------------------------------------------------------------------------
(* step3_review_tasks and review_suborchestrator *)

\* The most overview tasks of a review.
MaxReviewTasks == 3

\* detailed_map: the truthy identifiers of the detailed tasks.
detailed_map(dt) == dt \ {NoId}

\* The loop over overview_tasks: the positions of the overview tasks whose
\* identifier is a key of detailed_map, in order.
MatchGroups(ov, dt) ==
    SelectSeq([i \in 1..Len(ov) |-> i], LAMBDA i : ov[i] \in detailed_map(dt))

\* The loop "for i in range(0, len(task_groups), batch_size)" from index i.
RECURSIVE ReviewBatches(_, _, _, _)
ReviewBatches(groups, i, size, bs) ==
    IF i >= Len(groups)
    THEN bs
    ELSE LET stop == IF i + size < Len(groups) THEN i + size ELSE Len(groups)
         IN  ReviewBatches(groups, i + size, size,
                           Append(bs, SubSeq(groups, i + 1, stop)))

\* The outputs a suborchestrator can give for a batch: text that is not
\* JSON, JSON that is no list of mappings, or a list of count results;
\* each bare or inside a code fence.
Outputs3(batch) ==
    {[payload |-> p, fenced |-> f, count |-> 0] :
        p \in {"undecodable", "not_list"}, f \in BOOLEAN}
    \cup {[payload |-> "list", fenced |-> f, count |-> c] :
            f \in BOOLEAN, c \in 0..Len(batch)}

\* A review_suborchestrator that returns one failed result for the batch.
review_suborchestrator_one(batch, out) ==
    IF out.payload = "undecodable"
    THEN [raised |-> FALSE,
          results |-> IF batch = <<>> THEN <<>>
                      ELSE <<[task_id |-> overview_tasks[batch[1]],
                              success |-> FALSE, issues |-> "parse"]>>]
    ELSE IF out.payload = "not_list"
    THEN [raised |-> TRUE, results |-> <<>>]
    ELSE [raised |-> FALSE,
          results |-> [k \in 1..out.count |->
                          [task_id |-> overview_tasks[batch[k]],
                           success |-> TRUE, issues |-> "none"]]]

\* review_suborchestrator from the output on: the fence, if any, is cut
\* away and the rest decoded. A JSONDecodeError gives one failed result per
\* entry of task_list; a decoded value that is no list of mappings raises
\* a TypeError, which is not caught; a list is returned as it is.
review_suborchestrator(batch, out) ==
    IF out.payload = "undecodable"
    THEN [raised |-> FALSE,
          results |-> [k \in 1..Len(batch) |->
                          [task_id |-> overview_tasks[batch[k]],
                           success |-> FALSE, issues |-> "parse"]]]
    ELSE IF out.payload = "not_list"
    THEN [raised |-> TRUE, results |-> <<>>]
    ELSE [raised |-> FALSE,
          results |-> [k \in 1..out.count |->
                          [task_id |-> overview_tasks[batch[k]],
                           success |-> TRUE, issues |-> "none"]]]

\* step3_review_tasks up to the for loop: matching and batching.
Match ==
    /\ rpc = "match"
    /\ task_groups' = MatchGroups(overview_tasks, detailed_tasks)
    /\ no_detailed' = Len(overview_tasks) - Len(task_groups')
    /\ review_batches' = ReviewBatches(task_groups', 0, review_batch_size, <<>>)
    /\ rpc' = "for"
    /\ UNCHANGED <<overview_tasks, detailed_tasks, review_batch_size,
                   review_batch_num, combined_output, batch_results,
                   all_review_results, review_complete,
                   svars, xvars, cvars, avars, pvars, tvars, mvars>>

\* The for loop takes the next batch and awaits its suborchestrator, which
\* has no output yet.
ReviewStart ==
    /\ rpc = "for"
    /\ review_batch_num < Len(review_batches)
    /\ review_batch_num' = review_batch_num + 1
    /\ combined_output' = [payload |-> "none", fenced |-> FALSE, count |-> 0]
    /\ rpc' = "await"
    /\ UNCHANGED <<overview_tasks, detailed_tasks, review_batch_size, task_groups,
                   no_detailed, review_batches, batch_results,
                   all_review_results, review_complete,
                   svars, xvars, cvars, avars, pvars, tvars, mvars>>

\* The suborchestrator gave its output: review_suborchestrator returns or
\* raises, and step 3 collects what it returned.
ReviewDone(out) ==
    /\ rpc = "await"
    /\ combined_output' = out
    /\ LET r == review_suborchestrator(review_batches[review_batch_num], out)
       IN  IF r.raised
           THEN /\ rpc' = "raised"
                /\ UNCHANGED <<batch_results, all_review_results, review_complete>>
           ELSE /\ batch_results' = r.results
                /\ all_review_results' = all_review_results \o r.results
                /\ review_complete' = review_complete + 1
                /\ rpc' = "for"
    /\ UNCHANGED <<overview_tasks, detailed_tasks, review_batch_size, task_groups,
                   no_detailed, review_batches, review_batch_num,
                   svars, xvars, cvars, avars, pvars, tvars, mvars>>

\* The query of the suborchestrator raises.
ReviewRaise ==
    /\ rpc = "await"
    /\ rpc' = "raised"
    /\ UNCHANGED <<overview_tasks, detailed_tasks, review_batch_size, task_groups,
                   no_detailed, review_batches, review_batch_num, combined_output,
                   batch_results, all_review_results, review_complete,
                   svars, xvars, cvars, avars, pvars, tvars, mvars>>

\* The for loop is through: all_review_results is returned.
ReviewReturn ==
    /\ rpc = "for"
    /\ review_batch_num = Len(review_batches)
    /\ rpc' = "returned"
    /\ UNCHANGED <<overview_tasks, detailed_tasks, review_batch_size, task_groups,
                   no_detailed, review_batches, review_batch_num, combined_output,
                   batch_results, all_review_results, review_complete,
                   svars, xvars, cvars, avars, pvars, tvars, mvars>>

\* step3_review_tasks is called: n overview tasks with identifiers from
\* off, detailed tasks for some of them and possibly for one more.
ReviewInit ==
    /\ tasks = <<>>
    /\ scheduled = {}
    /\ batches = <<>>
    /\ warnings = 0
    /\ fell_back = FALSE
    /\ pc = "done"
    /\ ExecIdle
    /\ FirstCall
    /\ AgentIdle
    /\ ParseIdle
    /\ TextIdle
    /\ MainIdle
    /\ rpc = "match"
    /\ \E n \in 0..MaxReviewTasks : \E off \in 0..1 :
          /\ overview_tasks = [i \in 1..n |-> i - 1 + off]
          /\ detailed_tasks \in SUBSET (off..(n + off))
    /\ review_batch_size \in 1..MaxBatchSize
    /\ task_groups = <<>>
    /\ no_detailed = 0
    /\ review_batches = <<>>
    /\ review_batch_num = 0
    /\ combined_output = [payload |-> "none", fenced |-> FALSE, count |-> 0]
    /\ batch_results = <<>>
    /\ all_review_results = <<>>
    /\ review_complete = 0

ReviewNext ==
    \/ Match
    \/ ReviewStart
    \/ \E out \in Outputs3(IF rpc = "await"
                           THEN review_batches[review_batch_num]
                           ELSE <<>>) : ReviewDone(out)
    \/ ReviewRaise
    \/ ReviewReturn

ReviewSpec == ReviewInit /\ [][ReviewNext]_vars

\* The batches bs one after the other.
RECURSIVE Flatten(_)
Flatten(bs) == IF bs = <<>> THEN <<>> ELSE Head(bs) \o Flatten(Tail(bs))

\* C21: after the matching, the groups are the overview tasks that have a
\* detailed task of the same identifier, in overview order, with one
\* warning for each of the others; the batches are the groups cut in
\* order into runs of batch_size, the last possibly shorter; and a
\* suborchestrator is awaited only when the results of all batches before
\* it are collected.
C21_ReviewBatches ==
    rpc \notin {"idle", "match"} =>
        /\ task_groups = SelectSeq([i \in 1..Len(overview_tasks) |-> i],
                             LAMBDA i : overview_tasks[i] \in detailed_tasks)
        /\ no_detailed = Len(overview_tasks) - Len(task_groups)
        /\ Flatten(review_batches) = task_groups
        /\ \A b \in 1..Len(review_batches) :
              /\ Len(review_batches[b]) >= 1
              /\ Len(review_batches[b]) <= review_batch_size
              /\ b < Len(review_batches) =>
                    Len(review_batches[b]) = review_batch_size
        /\ rpc = "await" => review_complete = review_batch_num - 1
        /\ rpc \in {"for", "returned"} => review_complete = review_batch_num

\* C22: when the output awaited last could not be decoded,
\* review_suborchestrator did not raise and returned one failed result for
\* each task of the batch, in batch order.
C22_UndecodableOutput ==
    combined_output.payload = "undecodable" =>
        /\ rpc # "raised"
        /\ Len(batch_results) = Len(review_batches[review_batch_num])
        /\ \A k \in 1..Len(batch_results) :
              batch_results[k] =
                  [task_id |-> overview_tasks[review_batches[review_batch_num][k]],
                   success |-> FALSE, issues |-> "parse"]

C22_Witness ==
    /\ combined_output.payload = "undecodable"
    /\ combined_output.fenced
    /\ review_batch_num = 2
    /\ Len(batch_results) = 1
    /\ Len(all_review_results) = 3

----------------------------------------------------------------------------
(* step2_expand_all_tasks: the text written and the text returned *)

\* The bounds of the texts: batches, tasks of a batch, different expansions.
MaxTextBatches == 2
MaxTextBatchSize == 2
MaxContent == 2

\* The separator "\n---\n" as an element of a text; an expansion is an
\* element 1..MaxContent.
SepText == 0

\* A streaming branch that writes the separator after each expansion.
RECURSIVE WriteBatchAfter(_, _, _, _)
WriteBatchAfter(b, expanded_batch, k, out) ==
    IF k > Len(expanded_batch)
    THEN out
    ELSE WriteBatchAfter(b, expanded_batch, k + 1,
                         out \o <<expanded_batch[k], SepText>>)

\* The streaming branch of SCRIPTS/tasks.py and test7.py for the results
\* of batch b from the k-th on: a separator goes before an expansion when
\* batch_num > 1 or its index in the batch is > 0 (a batch of one: when
\* batch_num > 1).
RECURSIVE WriteBatch(_, _, _, _)
WriteBatch(b, expanded_batch, k, out) ==
    IF k > Len(expanded_batch)
    THEN out
    ELSE WriteBatch(b, expanded_batch, k + 1,
             (IF b > 1 \/ k - 1 > 0 THEN Append(out, SepText) ELSE out)
                 \o <<expanded_batch[k]>>)

\* list.index: the index from 0 of the first element equal to x.
IndexOf(xs, x) ==
    (CHOOSE i \in 1..Len(xs) : xs[i] = x /\ \A j \in 1..(i - 1) : xs[j] # x) - 1

\* The streaming branch of scripts/tasks.py: in a batch of several tasks
\* the separator goes before an expansion when batch_num > 1 or
\* expanded_batch.index(expanded) > 0.
RECURSIVE WriteBatchIndex(_, _, _, _)
WriteBatchIndex(b, expanded_batch, k, out) ==
    IF k > Len(expanded_batch)
    THEN out
    ELSE WriteBatchIndex(b, expanded_batch, k + 1,
             (IF b > 1 \/ (Len(expanded_batch) # 1
                           /\ IndexOf(expanded_batch, expanded_batch[k]) > 0)
              THEN Append(out, SepText)
              ELSE out)
                 \o <<expanded_batch[k]>>)

\* "\n---\n".join(xs).
RECURSIVE Join(_)
Join(xs) ==
    IF xs = <<>>
    THEN <<>>
    ELSE IF Len(xs) = 1
    THEN <<xs[1]>>
    ELSE <<xs[1], SepText>> \o Join(Tail(xs))

\* One pass of the for loop in SCRIPTS/tasks.py and test7.py, with the
\* batch awaited to its results.
ExpandBatch ==
    /\ text_pc = "for"
    /\ text_batch_num < Len(text_batches)
    /\ text_batch_num' = text_batch_num + 1
    /\ LET expanded_batch == text_batches[text_batch_num + 1]
       IN  IF text_stream
           THEN /\ text_file' = WriteBatch(text_batch_num + 1, expanded_batch,
                                           1, text_file)
                /\ UNCHANGED text_expanded
           ELSE /\ text_expanded' = text_expanded \o expanded_batch
                /\ UNCHANGED text_file
    /\ UNCHANGED <<text_pc, text_batches, text_stream, text_combined,
                   svars, xvars, cvars, avars, pvars, rvars, mvars>>

\* One pass of the for loop in scripts/tasks.py.
ExpandBatchIndex ==
    /\ text_pc = "for"
    /\ text_batch_num < Len(text_batches)
    /\ text_batch_num' = text_batch_num + 1
    /\ LET expanded_batch == text_batches[text_batch_num + 1]
       IN  IF text_stream
           THEN /\ text_file' = WriteBatchIndex(text_batch_num + 1,
                                                expanded_batch, 1, text_file)
                /\ UNCHANGED text_expanded
           ELSE /\ text_expanded' = text_expanded \o expanded_batch
                /\ UNCHANGED text_file
    /\ UNCHANGED <<text_pc, text_batches, text_stream, text_combined,
                   svars, xvars, cvars, avars, pvars, rvars, mvars>>

\* After the loop: "" in streaming mode, else the expansions joined.
ReturnText ==
    /\ text_pc = "for"
    /\ text_batch_num = Len(text_batches)
    /\ text_combined' = IF text_stream THEN <<>> ELSE Join(text_expanded)
    /\ text_pc' = "returned"
    /\ UNCHANGED <<text_batches, text_stream, text_batch_num, text_file,
                   text_expanded, svars, xvars, cvars, avars, pvars, rvars, mvars>>

\* The expansions of one batch, and the batches of a run.
BatchTexts == UNION {[1..m -> 1..MaxContent] : m \in 1..MaxTextBatchSize}

TextInit ==
    /\ tasks = <<>>
    /\ scheduled = {}
    /\ batches = <<>>
    /\ warnings = 0
    /\ fell_back = FALSE
    /\ pc = "done"
    /\ ExecIdle
    /\ FirstCall
    /\ AgentIdle
    /\ ParseIdle
    /\ ReviewIdle
    /\ MainIdle
    /\ text_pc = "for"
    /\ text_batches \in UNION {[1..n -> BatchTexts] : n \in 0..MaxTextBatches}
    /\ text_stream \in BOOLEAN
    /\ text_batch_num = 0
    /\ text_file = <<>>
    /\ text_expanded = <<>>
    /\ text_combined = <<>>

TextNext == ExpandBatch \/ ReturnText

\* SCRIPTS/tasks.py and test7.py.
TextSpec == TextInit /\ [][TextNext]_vars

IndexNext == ExpandBatchIndex \/ ReturnText

\* scripts/tasks.py.
IndexSpec == TextInit /\ [][IndexNext]_vars

\* The expansions of all batches in order, joined by one separator each.
Separated ==
    LET flat == Flatten(text_batches)
    IN  [j \in 1..(IF flat = <<>> THEN 0 ELSE 2 * Len(flat) - 1) |->
            IF j % 2 = 1 THEN flat[(j + 1) \div 2] ELSE SepText]

\* C26: when the function has returned, the file of the streaming mode,
\* or the string returned by the other mode, is the expansions joined by
\* one separator, with none before the first or after the last; the
\* streaming mode returns the empty string.
C26_StreamingEquivalent ==
    text_pc = "returned" =>
        IF text_stream
        THEN text_file = Separated /\ text_combined = <<>>
        ELSE text_combined = Separated /\ text_file = <<>>

\* Streaming returned after a batch of two equal texts and a batch of one.
C26_Witness ==
    /\ text_pc = "returned"
    /\ text_stream
    /\ Len(text_batches) = 2
    /\ Len(text_batches[1]) = 2
    /\ text_batches[1][1] = text_batches[1][2]
    /\ Len(text_batches[2]) = 1

\* C27: in streaming mode the file written so far is the expansions of the
\* batches done, each two of them one separator apart and none before the
\* first.
C27_OneSeparatorBetween ==
    text_stream =>
        LET flat == Flatten(SubSeq(text_batches, 1, text_batch_num))
        IN  /\ Len(text_file) = IF flat = <<>> THEN 0 ELSE 2 * Len(flat) - 1
            /\ \A j \in 1..Len(text_file) :
                  text_file[j] = IF j % 2 = 1 THEN flat[(j + 1) \div 2] ELSE SepText

----------------------------------------------------------------------------
(* main with --step all: from step 2 to step 3 *)

\* The longest text of a run of main.
MaxTextLen == 2

\* The characters of a text: white space, and any other character.
Blank == 0
Other == 1

Texts == UNION {[1..n -> {Blank, Other}] : n \in 0..MaxTextLen}

\* str.strip: the text without its leading and trailing white space.
RECURSIVE strip(_)
strip(t) ==
    IF t = <<>>
    THEN t
    ELSE IF Head(t) = Blank
    THEN strip(Tail(t))
    ELSE IF t[Len(t)] = Blank
    THEN strip(SubSeq(t, 1, Len(t) - 1))
    ELSE t

\* The truth value of a string.
Truthy(t) == t # <<>>

\* step2_expand_all_tasks returns: in streaming mode the text is in
\* tasks.yaml, opened for writing, and "" is returned; otherwise the text
\* is returned.
Step2Returns ==
    /\ mpc = "step2"
    /\ IF stream
       THEN tasks_file' = produced /\ tasks_yaml' = <<>>
       ELSE tasks_yaml' = produced /\ UNCHANGED tasks_file
    /\ mpc' = "check"
    /\ UNCHANGED <<stream, produced, reported, handed,
                   svars, xvars, cvars, avars, pvars, rvars, tvars>>

\* The test of main on what step 2 returned: save it, or take it for the
\* streaming mode, or report that no tasks were generated and return.
CheckTasks ==
    /\ mpc = "check"
    /\ IF Truthy(tasks_yaml) /\ Truthy(strip(tasks_yaml))
       THEN tasks_file' = tasks_yaml /\ mpc' = "step3" /\ UNCHANGED reported
       ELSE IF ~Truthy(tasks_yaml)
       THEN mpc' = "step3" /\ UNCHANGED <<tasks_file, reported>>
       ELSE reported' = TRUE /\ mpc' = "stopped" /\ UNCHANGED tasks_file
    /\ UNCHANGED <<stream, produced, tasks_yaml, handed,
                   svars, xvars, cvars, avars, pvars, rvars, tvars>>

\* step3_review_tasks is called with tasks_yaml.
Step3Called ==
    /\ mpc = "step3"
    /\ handed' = tasks_yaml
    /\ mpc' = "reviewing"
    /\ UNCHANGED <<stream, produced, tasks_yaml, tasks_file, reported,
                   svars, xvars, cvars, avars, pvars, rvars, tvars>>

\* main has reached step 2 of --step all: the mode, the text this run of
\* step 2 produces, and the tasks.yaml an earlier run may have left.
MainInit ==
    /\ tasks = <<>>
    /\ scheduled = {}
    /\ batches = <<>>
    /\ warnings = 0
    /\ fell_back = FALSE
    /\ pc = "done"
    /\ ExecIdle
    /\ FirstCall
    /\ AgentIdle
    /\ ParseIdle
    /\ ReviewIdle
    /\ TextIdle
    /\ mpc = "step2"
    /\ stream \in BOOLEAN
    /\ produced \in Texts
    /\ tasks_yaml = <<>>
    /\ tasks_file \in Texts
    /\ reported = FALSE
    /\ handed = <<>>

MainNext == Step2Returns \/ CheckTasks \/ Step3Called

MainSpec == MainInit /\ [][MainNext]_vars

\* C28: the text step 3 is called with is the text step 2 produced in this
\* run, in either mode; and when step 2, not streaming, produced no task
\* text, main reports it and stops without calling step 3.
C28_Step2TextToStep3 ==
    /\ mpc = "reviewing" => handed = produced
    /\ (~stream /\ strip(produced) = <<>> /\ mpc \notin {"step2", "check"}) =>
          (reported /\ mpc = "stopped")

====
